---- MODULE Spec2Model ----
(***************************************************************************)
(* The example programs of the STL introduction (the article's five        *)
(* listings, the priority-queue example and the generate_n example) as one *)
(* state machine.  A run executes one example; `prog' names it and `pc' is  *)
(* the position in its main().  The literals an example pushes or inserts  *)
(* are kept in `input', so that the same main() can be run on the          *)
(* article's literals and on every other bounded sequence.                 *)
(***************************************************************************)
EXTENDS Integers, Sequences, FiniteSets

(* ---------------------------- bounds ----------------------------------- *)

\* longest sequence of literals an example is run on
MaxLen == 3

\* number of printed items the log `out' keeps (the first MaxOut)
MaxOut == 12

\* modulus of the modelled generators behind rand()
RandMod == 16

\* the integers the examples are run on: the literals of the listings
Vals == {1, 3, 42, 69, 101}

\* generators rand() may be on a given build: <<multiplier, increment>>
RandImpls == {<<5, 3>>, <<3, 7>>, <<7, 1>>}

(* ------------------------ program constants ---------------------------- *)

\* vector <int> v1 (10)
VecSize == 10

\* for (int i = 0; i < 10; i++)
PrintCount == 10

\* the seed rand() starts from when srand() was never called
DefaultSeed == 1

\* the literals of the listings
VecLiterals == <<42, 1>>

ArrayLiterals == <<1, 42, 3>>

SetLiterals == <<1, 42, 3>>

PqLiterals == <<42, 101, 69>>

Progs == {"vec", "iter", "sort", "set", "pq", "gen"}

(* --------------------------- sequences --------------------------------- *)

SeqsUpTo(n) == UNION {[1..m -> Vals] : m \in 0..n}

Inputs == SeqsUpTo(MaxLen)

IsPrefix(a, b) == Len(a) <= Len(b) /\ SubSeq(b, 1, Len(a)) = a

\* number of occurrences of x in sequence a
RECURSIVE Count(_, _)
Count(a, x) ==
  IF a = <<>> THEN 0
  ELSE (IF Head(a) = x THEN 1 ELSE 0) + Count(Tail(a), x)

Range(a) == {a[i] : i \in 1..Len(a)}

SameMultiset(a, b) ==
  /\ Len(a) = Len(b)
  /\ \A x \in Range(a) \cup Range(b) : Count(a, x) = Count(b, x)

NonDecreasing(a) == \A i \in 1..(Len(a) - 1) : a[i] <= a[i + 1]

NonIncreasing(a) == \A i \in 1..(Len(a) - 1) : a[i] >= a[i + 1]

StrictlyAscending(a) == \A i \in 1..(Len(a) - 1) : a[i] < a[i + 1]

SeqMax(a) == CHOOSE x \in Range(a) : \A y \in Range(a) : y <= x

(* ----------------------------- output ---------------------------------- *)

\* one `cout << pre << value << sep' statement; vals is <<value>> or <<>>
Item(pre, vals, sep) == <<pre, vals, sep>>

\* cout keeps what was printed, in order
Emit(o, item) == IF Len(o) < MaxOut THEN Append(o, item) ELSE o

Values(o) == [i \in 1..Len(o) |-> o[i][2][1]]

(* --------------------------- the library ------------------------------- *)

\* vector<int>::push_back
push_back(c, x) == Append(c, x)

\* vector<int>::size
size(c) == Len(c)

\* begin () and end () as positions 1..Len+1
begin(c) == 1

end(c) == Len(c) + 1


\* __unguarded_linear_insert (last, value): shift the greater elements up
RECURSIVE UnguardedLinearInsert(_, _, _)
UnguardedLinearInsert(a, last, value) ==
  IF value < a[last - 1]
  THEN UnguardedLinearInsert([a EXCEPT ![last] = a[last - 1]], last - 1, value)
  ELSE [a EXCEPT ![last] = value]

\* __linear_insert (first, last): put *last in its place in first..last
LinearInsert(a, last) ==
  LET value == a[last] IN
  IF value < a[1]
  THEN [i \in 1..Len(a) |->
          IF i = 1 THEN value ELSE IF i <= last THEN a[i - 1] ELSE a[i]]
  ELSE UnguardedLinearInsert(a, last, value)

\* __insertion_sort (first, last), its loop from position i on
RECURSIVE InsertionSort(_, _)
InsertionSort(a, i) ==
  IF i > Len(a) THEN a ELSE InsertionSort(LinearInsert(a, i), i + 1)

\* sort (first, last) on the positions first..last-1 of a; a range of at
\* most 16 elements is sorted by the final insertion sort alone
sort(a, first, last) ==
  LET mid == SubSeq(a, first, last - 1) IN
  SubSeq(a, 1, first - 1)
    \o (IF mid = <<>> THEN mid ELSE InsertionSort(mid, 2))
    \o SubSeq(a, last, Len(a))


\* set<int, less<int> >::insert on the in-order contents: the key goes
\* before the first greater key, and is dropped when an equivalent key
\* (neither less than the other) is already there
RECURSIVE insert(_, _)
insert(c, x) ==
  IF c = <<>> THEN <<x>>
  ELSE IF x < Head(c) THEN <<x>> \o c
  ELSE IF Head(c) < x THEN <<Head(c)>> \o insert(Tail(c), x)
  ELSE c

\* __push_heap (first, holeIndex, topIndex, value), indices from 0
RECURSIVE PushHeap(_, _, _, _)
PushHeap(a, holeIndex, topIndex, value) ==
  LET parent == (holeIndex - 1) \div 2 IN
  IF holeIndex > topIndex /\ a[parent + 1] < value
  THEN PushHeap([a EXCEPT ![holeIndex + 1] = a[parent + 1]],
                parent, topIndex, value)
  ELSE [a EXCEPT ![holeIndex + 1] = value]

\* the while loop of __adjust_heap: move the greater child into the hole
RECURSIVE AdjustLoop(_, _, _, _)
AdjustLoop(a, holeIndex, secondChild, len) ==
  IF secondChild < len
  THEN LET sc == IF a[secondChild + 1] < a[secondChild]
                 THEN secondChild - 1 ELSE secondChild
       IN AdjustLoop([a EXCEPT ![holeIndex + 1] = a[sc + 1]],
                     sc, 2 * (sc + 1), len)
  ELSE <<a, holeIndex, secondChild>>

\* __adjust_heap (first, holeIndex, len, value)
AdjustHeap(a, holeIndex, len, value) ==
  LET r == AdjustLoop(a, holeIndex, 2 * holeIndex + 2, len)
      b == r[1]
      h == r[2]
      sc == r[3]
  IN IF sc = len
     THEN PushHeap([b EXCEPT ![h + 1] = b[sc]], sc - 1, holeIndex, value)
     ELSE PushHeap(b, h, holeIndex, value)

\* push_heap (first, last): sift the last element up
push_heap(a) == PushHeap(a, Len(a) - 1, 0, a[Len(a)])

\* pop_heap (first, last): the first element goes last, the rest is a heap
pop_heap(a) ==
  LET n == Len(a)
      value == a[n]
  IN AdjustHeap([a EXCEPT ![n] = a[1]], 0, n - 1, value)

\* priority_queue::push: c.push_back (x); push_heap (c.begin (), c.end ())
push(c, x) == push_heap(push_back(c, x))

\* priority_queue::top: c.front ()
top(c) == c[1]

\* priority_queue::pop: pop_heap (c.begin (), c.end ()); c.pop_back ()
pop(c) == SubSeq(pop_heap(c), 1, Len(c) - 1)

\* priority_queue::empty
empty(c) == Len(c) = 0

\* rand (): the next value of the build's generator, which is also its
\* next state
rand(impl, st) == (impl[1] * st + impl[2]) % RandMod

(* ----------------------------- state ----------------------------------- *)

VARIABLES
  prog,    \* the example being run
  pc,      \* position in its main ()
  input,   \* the literals it pushes, inserts or initialises the array with
  k,       \* number of push_back / insert / push statements executed
           \* (n of generate_n in the generate_n example)
  arr,     \* int array []
  v,       \* vector<int> v (v1 in the generate_n example)
  s,       \* set<int, less<int> > s, as its in-order contents
  q,       \* the deque under priority_queue q, in heap order
  p1,      \* int* p1, as a position in arr (i in the generate_n example)
  p2,      \* the container iterator p2 / p, as a position
           \* (first of generate_n in the generate_n example)
  out,     \* what was printed to cout
  ret,     \* the value main () returned, -1 while it runs
  rimpl,   \* the generator behind rand () on this build
  rstate,  \* rand ()'s internal state
  rlog,    \* the values rand () returned so far in this run
  oob,     \* a store or a read outside the storage of a container happened
  pre,     \* contents of the range handed to the last sort () call
  runNo,   \* 1 for the first run of the program, 2 for the second
  out1     \* what the first run printed

vars == <<prog, pc, input, k, arr, v, s, q, p1, p2, out, ret,
          rimpl, rstate, rlog, oob, pre, runNo, out1>>

\* the position main () starts at
Entry(pr) ==
  CASE pr = "vec"  -> "vec_push"
    [] pr = "iter" -> "iter_ainit"
    [] pr = "sort" -> "sort_array"
    [] pr = "set"  -> "set_insert"
    [] pr = "pq"   -> "pq_push"
    [] pr = "gen"  -> "gen_construct"

\* the state of a process at the entry of main (): globals initialised
\* (int array [] = {...}; vector<int> v;), nothing printed
Start(pr, in) ==
  /\ pc = Entry(pr)
  /\ k = 0
  /\ arr = IF pr \in {"iter", "sort"} THEN in ELSE <<>>
  /\ v = <<>>
  /\ s = <<>>
  /\ q = <<>>
  /\ p1 = 0
  /\ p2 = 0
  /\ out = <<>>
  /\ ret = -1
  /\ rstate = DefaultSeed
  /\ rlog = <<>>
  /\ oob = FALSE
  /\ pre = <<>>

Init ==
  /\ prog \in Progs
  /\ input \in (IF prog = "gen" THEN {<<>>} ELSE Inputs)
  /\ rimpl \in (IF prog = "gen" THEN RandImpls ELSE {<<5, 3>>})
  /\ runNo = 1
  /\ out1 = <<>>
  /\ Start(prog, input)

(* ---------------------- the simple vector example ---------------------- *)

\* variant: the element is stored over the vector instead of appended
VecPushBack_Overwrite ==
  /\ prog = "vec" /\ pc = "vec_push" /\ k < Len(input)
  /\ v' = <<input[k + 1]>>
  /\ k' = k + 1
  /\ UNCHANGED <<prog, pc, input, arr, s, q, p1, p2, out, ret, rimpl,
                 rstate, rlog, oob, pre, runNo, out1>>

\* v.push_back (42); v.push_back (1);
VecPushBack ==
  /\ prog = "vec" /\ pc = "vec_push" /\ k < Len(input)
  /\ v' = push_back(v, input[k + 1])
  /\ k' = k + 1
  /\ UNCHANGED <<prog, pc, input, arr, s, q, p1, p2, out, ret,
                 rimpl, rstate, rlog, oob, pre, runNo, out1>>

\* cout << "v.size () = " << v.size () << endl;
VecPrintSize ==
  /\ prog = "vec" /\ pc = "vec_push" /\ k = Len(input)
  /\ out' = Emit(out, Item("v.size () = ", <<size(v)>>, "\n"))
  /\ pc' = "vec_ret"
  /\ UNCHANGED <<prog, input, k, arr, v, s, q, p1, p2, ret,
                 rimpl, rstate, rlog, oob, pre, runNo, out1>>

\* return 0;
VecReturn ==
  /\ prog = "vec" /\ pc = "vec_ret"
  /\ ret' = 0
  /\ pc' = "done"
  /\ UNCHANGED <<prog, input, k, arr, v, s, q, p1, p2, out,
                 rimpl, rstate, rlog, oob, pre, runNo, out1>>

(* ------------------------ the iterator example ------------------------- *)

\* for (p1 = array; ...
IterArrayInit ==
  /\ prog = "iter" /\ pc = "iter_ainit"
  /\ p1' = begin(arr)
  /\ pc' = "iter_atest"
  /\ UNCHANGED <<prog, input, k, arr, v, s, q, p2, out, ret, rimpl, rstate,
                 rlog, oob, pre, runNo, out1>>

\* ... p1 != array + 3; ...   (3 is the length of the initialiser)
IterArrayTest ==
  /\ prog = "iter" /\ pc = "iter_atest"
  /\ pc' = IF p1 # end(arr) THEN "iter_abody" ELSE "iter_push"
  /\ UNCHANGED <<prog, input, k, arr, v, s, q, p1, p2, out, ret, rimpl,
                 rstate, rlog, oob, pre, runNo, out1>>

\* cout << "array has " << *p1 << endl;   ... p1++)
IterArrayBody ==
  /\ prog = "iter" /\ pc = "iter_abody"
  /\ out' = Emit(out, Item("array has ", <<arr[p1]>>, "\n"))
  /\ p1' = p1 + 1
  /\ pc' = "iter_atest"
  /\ UNCHANGED <<prog, input, k, arr, v, s, q, p2, ret, rimpl, rstate,
                 rlog, oob, pre, runNo, out1>>

\* v.push_back (1); v.push_back (42); v.push_back (3);
IterPushBack ==
  /\ prog = "iter" /\ pc = "iter_push" /\ k < Len(input)
  /\ v' = push_back(v, input[k + 1])
  /\ k' = k + 1
  /\ UNCHANGED <<prog, pc, input, arr, s, q, p1, p2, out, ret, rimpl,
                 rstate, rlog, oob, pre, runNo, out1>>

\* for (p2 = v.begin (); ...
IterVecInit ==
  /\ prog = "iter" /\ pc = "iter_push" /\ k = Len(input)
  /\ p2' = begin(v)
  /\ pc' = "iter_vtest"
  /\ UNCHANGED <<prog, input, k, arr, v, s, q, p1, out, ret, rimpl, rstate,
                 rlog, oob, pre, runNo, out1>>

\* ... p2 != v.end (); ...
IterVecTest ==
  /\ prog = "iter" /\ pc = "iter_vtest"
  /\ pc' = IF p2 # end(v) THEN "iter_vbody" ELSE "iter_ret"
  /\ UNCHANGED <<prog, input, k, arr, v, s, q, p1, p2, out, ret, rimpl,
                 rstate, rlog, oob, pre, runNo, out1>>

\* cout << "vector has " << *p2 << endl;   ... v++)
\* the step expression names v, not p2: nothing assigns p2 in the loop
IterVecBody ==
  /\ prog = "iter" /\ pc = "iter_vbody"
  /\ out' = Emit(out, Item("vector has ", <<v[p2]>>, "\n"))
  /\ pc' = "iter_vtest"
  /\ UNCHANGED <<prog, input, k, arr, v, s, q, p1, p2, ret, rimpl, rstate,
                 rlog, oob, pre, runNo, out1>>

\* return 0;
IterReturn ==
  /\ prog = "iter" /\ pc = "iter_ret"
  /\ ret' = 0
  /\ pc' = "done"
  /\ UNCHANGED <<prog, input, k, arr, v, s, q, p1, p2, out, rimpl, rstate,
                 rlog, oob, pre, runNo, out1>>

(* -------------------------- the sort example --------------------------- *)

\* variant: sort (array, array + 2), the past-the-end pointer one short
SortArray_Short ==
  /\ prog = "sort" /\ pc = "sort_array"
  /\ pre' = arr
  /\ arr' = sort(arr, begin(arr), IF arr = <<>> THEN end(arr) ELSE end(arr) - 1)
  /\ pc' = "sort_ainit"
  /\ UNCHANGED <<prog, input, k, v, s, q, p1, p2, out, ret, rimpl, rstate,
                 rlog, oob, runNo, out1>>

\* variant: sort (array, array + 4), the past-the-end pointer one too far:
\* the int behind the array is sorted into it
SortArray_PastEnd ==
  /\ prog = "sort" /\ pc = "sort_array"
  /\ pre' = arr
  /\ \E g \in Vals \cup {0} :
       arr' = SubSeq(sort(Append(arr, g), 1, Len(arr) + 2), 1, Len(arr))
  /\ oob' = TRUE
  /\ pc' = "sort_ainit"
  /\ UNCHANGED <<prog, input, k, v, s, q, p1, p2, out, ret, rimpl, rstate,
                 rlog, runNo, out1>>

\* sort (array, array + 3);
SortArray ==
  /\ prog = "sort" /\ pc = "sort_array"
  /\ pre' = arr
  /\ arr' = sort(arr, begin(arr), end(arr))
  /\ pc' = "sort_ainit"
  /\ UNCHANGED <<prog, input, k, v, s, q, p1, p2, out, ret, rimpl, rstate,
                 rlog, oob, runNo, out1>>

\* for (p1 = array; ...
SortArrayInit ==
  /\ prog = "sort" /\ pc = "sort_ainit"
  /\ p1' = begin(arr)
  /\ pc' = "sort_atest"
  /\ UNCHANGED <<prog, input, k, arr, v, s, q, p2, out, ret, rimpl, rstate,
                 rlog, oob, pre, runNo, out1>>

\* ... p1 != array+3; ...
SortArrayTest ==
  /\ prog = "sort" /\ pc = "sort_atest"
  /\ pc' = IF p1 # end(arr) THEN "sort_abody" ELSE "sort_push"
  /\ UNCHANGED <<prog, input, k, arr, v, s, q, p1, p2, out, ret, rimpl,
                 rstate, rlog, oob, pre, runNo, out1>>

\* cout << "array has " << *p1 << endl;   ... p1++)
SortArrayBody ==
  /\ prog = "sort" /\ pc = "sort_abody"
  /\ out' = Emit(out, Item("array has ", <<arr[p1]>>, "\n"))
  /\ p1' = p1 + 1
  /\ pc' = "sort_atest"
  /\ UNCHANGED <<prog, input, k, arr, v, s, q, p2, ret, rimpl, rstate,
                 rlog, oob, pre, runNo, out1>>

\* v.push_back (1); v.push_back (42); v.push_back (3);
SortPushBack ==
  /\ prog = "sort" /\ pc = "sort_push" /\ k < Len(input)
  /\ v' = push_back(v, input[k + 1])
  /\ k' = k + 1
  /\ UNCHANGED <<prog, pc, input, arr, s, q, p1, p2, out, ret, rimpl,
                 rstate, rlog, oob, pre, runNo, out1>>

\* sort (v.begin (), v.end ());
SortVector ==
  /\ prog = "sort" /\ pc = "sort_push" /\ k = Len(input)
  /\ pre' = v
  /\ v' = sort(v, begin(v), end(v))
  /\ pc' = "sort_vinit"
  /\ UNCHANGED <<prog, input, k, arr, s, q, p1, p2, out, ret, rimpl,
                 rstate, rlog, oob, runNo, out1>>

\* for (p2 = v.begin (); ...
SortVecInit ==
  /\ prog = "sort" /\ pc = "sort_vinit"
  /\ p2' = begin(v)
  /\ pc' = "sort_vtest"
  /\ UNCHANGED <<prog, input, k, arr, v, s, q, p1, out, ret, rimpl, rstate,
                 rlog, oob, pre, runNo, out1>>

\* ... p2 != v.end (); ...
SortVecTest ==
  /\ prog = "sort" /\ pc = "sort_vtest"
  /\ pc' = IF p2 # end(v) THEN "sort_vbody" ELSE "sort_ret"
  /\ UNCHANGED <<prog, input, k, arr, v, s, q, p1, p2, out, ret, rimpl,
                 rstate, rlog, oob, pre, runNo, out1>>

\* cout << "vector has " << *p2 << endl;   ... p2++)
SortVecBody ==
  /\ prog = "sort" /\ pc = "sort_vbody"
  /\ out' = Emit(out, Item("vector has ", <<v[p2]>>, "\n"))
  /\ p2' = p2 + 1
  /\ pc' = "sort_vtest"
  /\ UNCHANGED <<prog, input, k, arr, v, s, q, p1, ret, rimpl, rstate,
                 rlog, oob, pre, runNo, out1>>

\* return 0;
SortReturn ==
  /\ prog = "sort" /\ pc = "sort_ret"
  /\ ret' = 0
  /\ pc' = "done"
  /\ UNCHANGED <<prog, input, k, arr, v, s, q, p1, p2, out, rimpl, rstate,
                 rlog, oob, pre, runNo, out1>>

(* --------------------------- the set example --------------------------- *)

\* s.insert (1); s.insert (42); s.insert (3);
SetInsert ==
  /\ prog = "set" /\ pc = "set_insert" /\ k < Len(input)
  /\ s' = insert(s, input[k + 1])
  /\ k' = k + 1
  /\ UNCHANGED <<prog, pc, input, arr, v, q, p1, p2, out, ret, rimpl,
                 rstate, rlog, oob, pre, runNo, out1>>

\* for (p = s.begin (); ...
SetIterInit ==
  /\ prog = "set" /\ pc = "set_insert" /\ k = Len(input)
  /\ p2' = begin(s)
  /\ pc' = "set_test"
  /\ UNCHANGED <<prog, input, k, arr, v, s, q, p1, out, ret, rimpl, rstate,
                 rlog, oob, pre, runNo, out1>>

\* variant: the loop stops one element before s.end ()
SetIterTest_Short ==
  /\ prog = "set" /\ pc = "set_test"
  /\ pc' = IF p2 < end(s) - 1 THEN "set_body" ELSE "set_ret"
  /\ UNCHANGED <<prog, input, k, arr, v, s, q, p1, p2, out, ret, rimpl,
                 rstate, rlog, oob, pre, runNo, out1>>

\* ... p != s.end (); ...
SetIterTest ==
  /\ prog = "set" /\ pc = "set_test"
  /\ pc' = IF p2 # end(s) THEN "set_body" ELSE "set_ret"
  /\ UNCHANGED <<prog, input, k, arr, v, s, q, p1, p2, out, ret, rimpl,
                 rstate, rlog, oob, pre, runNo, out1>>

\* cout << *p << endl;   ... p++)
SetIterBody ==
  /\ prog = "set" /\ pc = "set_body"
  /\ out' = Emit(out, Item("", <<s[p2]>>, "\n"))
  /\ p2' = p2 + 1
  /\ pc' = "set_test"
  /\ UNCHANGED <<prog, input, k, arr, v, s, q, p1, ret, rimpl, rstate,
                 rlog, oob, pre, runNo, out1>>

\* return 0;
SetReturn ==
  /\ prog = "set" /\ pc = "set_ret"
  /\ ret' = 0
  /\ pc' = "done"
  /\ UNCHANGED <<prog, input, k, arr, v, s, q, p1, p2, out, rimpl, rstate,
                 rlog, oob, pre, runNo, out1>>

(* --------------------- the priority-queue example ---------------------- *)

\* q.push (42); q.push (101); q.push (69);
PqPush ==
  /\ prog = "pq" /\ pc = "pq_push" /\ k < Len(input)
  /\ q' = push(q, input[k + 1])
  /\ k' = k + 1
  /\ UNCHANGED <<prog, pc, input, arr, v, s, p1, p2, out, ret, rimpl,
                 rstate, rlog, oob, pre, runNo, out1>>

\* variant: while (q.size () >= 0)
PqTest_SizeGe0 ==
  /\ prog = "pq"
  /\ (pc = "pq_push" /\ k = Len(input)) \/ pc = "pq_test"
  /\ pc' = IF Len(q) >= 0 THEN "pq_body" ELSE "pq_ret"
  /\ UNCHANGED <<prog, input, k, arr, v, s, q, p1, p2, out, ret, rimpl,
                 rstate, rlog, oob, pre, runNo, out1>>

\* while (!q.empty ())   reached after the last push and after each body
PqTest ==
  /\ prog = "pq"
  /\ (pc = "pq_push" /\ k = Len(input)) \/ pc = "pq_test"
  /\ pc' = IF ~empty(q) THEN "pq_body" ELSE "pq_ret"
  /\ UNCHANGED <<prog, input, k, arr, v, s, q, p1, p2, out, ret, rimpl,
                 rstate, rlog, oob, pre, runNo, out1>>

\* variant: q.pop (); cout << q.top () << endl;
PqBody_PopFirst ==
  /\ prog = "pq" /\ pc = "pq_body"
  /\ LET r == IF empty(q) THEN q ELSE pop(q)
     IN /\ \E x \in (IF empty(r) THEN Vals ELSE {top(r)}) :
             out' = Emit(out, Item("", <<x>>, "\n"))
        /\ q' = r
        /\ oob' = (oob \/ empty(q) \/ empty(r))
  /\ pc' = "pq_test"
  /\ UNCHANGED <<prog, input, k, arr, v, s, p1, p2, ret, rimpl, rstate,
                 rlog, pre, runNo, out1>>

\* cout << q.top () << endl; q.pop ();
\* top () and pop () of an empty queue read and destroy what is not there
PqBody ==
  /\ prog = "pq" /\ pc = "pq_body"
  /\ \E x \in (IF empty(q) THEN Vals ELSE {top(q)}) :
       out' = Emit(out, Item("", <<x>>, "\n"))
  /\ q' = IF empty(q) THEN q ELSE pop(q)
  /\ oob' = (oob \/ empty(q))
  /\ pc' = "pq_test"
  /\ UNCHANGED <<prog, input, k, arr, v, s, p1, p2, ret, rimpl, rstate,
                 rlog, pre, runNo, out1>>

\* return 0;
PqReturn ==
  /\ prog = "pq" /\ pc = "pq_ret"
  /\ ret' = 0
  /\ pc' = "done"
  /\ UNCHANGED <<prog, input, k, arr, v, s, q, p1, p2, out, rimpl, rstate,
                 rlog, oob, pre, runNo, out1>>

(* ----------------------- the generate_n example ------------------------ *)

\* vector <int> v1 (10);   ten value-initialised ints
GenConstruct ==
  /\ prog = "gen" /\ pc = "gen_construct"
  /\ v' = [i \in 1..VecSize |-> 0]
  /\ pc' = "gen_generate"
  /\ UNCHANGED <<prog, input, k, arr, s, q, p1, p2, out, ret, rimpl,
                 rstate, rlog, oob, pre, runNo, out1>>

\* variant: generate_n (v1.begin (), v1.size () - 1, rand);
GenGenerate_OffByOne ==
  /\ prog = "gen" /\ pc = "gen_generate"
  /\ p2' = begin(v)
  /\ k' = size(v) - 1
  /\ pc' = "gen_n_loop"
  /\ UNCHANGED <<prog, input, arr, v, s, q, p1, out, ret, rimpl, rstate,
                 rlog, oob, pre, runNo, out1>>

\* generate_n (v1.begin (), v1.size (), rand);   the call: first and n
\* are bound to the arguments (p2 holds first, k holds n)
GenGenerate ==
  /\ prog = "gen" /\ pc = "gen_generate"
  /\ p2' = begin(v)
  /\ k' = size(v)
  /\ pc' = "gen_n_loop"
  /\ UNCHANGED <<prog, input, arr, v, s, q, p1, out, ret, rimpl, rstate,
                 rlog, oob, pre, runNo, out1>>

\* generate_n: while (n-- > 0) *first++ = gen ();   one iteration; a store
\* through an iterator outside the container is recorded in oob
GenerateNStep ==
  /\ prog = "gen" /\ pc = "gen_n_loop" /\ k > 0
  /\ LET x == rand(rimpl, rstate)
     IN /\ rstate' = x
        /\ rlog' = Append(rlog, x)
        /\ v' = IF p2 \in 1..Len(v) THEN [v EXCEPT ![p2] = x] ELSE v
  /\ oob' = (oob \/ p2 \notin 1..Len(v))
  /\ p2' = p2 + 1
  /\ k' = k - 1
  /\ UNCHANGED <<prog, pc, input, arr, s, q, p1, out, ret, rimpl, pre,
                 runNo, out1>>

\* generate_n: n reached 0, the call returns
GenerateNReturn ==
  /\ prog = "gen" /\ pc = "gen_n_loop" /\ k = 0
  /\ pc' = "gen_init"
  /\ UNCHANGED <<prog, input, k, arr, v, s, q, p1, p2, out, ret, rimpl,
                 rstate, rlog, oob, pre, runNo, out1>>

\* for (int i = 0; ...
GenLoopInit ==
  /\ prog = "gen" /\ pc = "gen_init"
  /\ p1' = 0
  /\ pc' = "gen_test"
  /\ UNCHANGED <<prog, input, k, arr, v, s, q, p2, out, ret, rimpl, rstate,
                 rlog, oob, pre, runNo, out1>>

\* ... i < 10; ...
GenLoopTest ==
  /\ prog = "gen" /\ pc = "gen_test"
  /\ pc' = IF p1 < PrintCount THEN "gen_body" ELSE "gen_endl"
  /\ UNCHANGED <<prog, input, k, arr, v, s, q, p1, p2, out, ret, rimpl,
                 rstate, rlog, oob, pre, runNo, out1>>

\* cout << v1[i] << ' ';   ... i++)
\* v1[i] past the last element reads whatever is there
GenLoopBody ==
  /\ prog = "gen" /\ pc = "gen_body"
  /\ \E x \in (IF p1 < size(v) THEN {v[p1 + 1]} ELSE 0..(RandMod - 1)) :
       out' = Emit(out, Item("", <<x>>, " "))
  /\ oob' = (oob \/ p1 >= size(v))
  /\ p1' = p1 + 1
  /\ pc' = "gen_test"
  /\ UNCHANGED <<prog, input, k, arr, v, s, q, p2, ret, rimpl, rstate,
                 rlog, pre, runNo, out1>>

\* cout << endl;
GenEndl ==
  /\ prog = "gen" /\ pc = "gen_endl"
  /\ out' = Emit(out, Item("", <<>>, "\n"))
  /\ pc' = "gen_ret"
  /\ UNCHANGED <<prog, input, k, arr, v, s, q, p1, p2, ret, rimpl, rstate,
                 rlog, oob, pre, runNo, out1>>

\* return 0;
GenReturn ==
  /\ prog = "gen" /\ pc = "gen_ret"
  /\ ret' = 0
  /\ pc' = "done"
  /\ UNCHANGED <<prog, input, k, arr, v, s, q, p1, p2, out, rimpl, rstate,
                 rlog, oob, pre, runNo, out1>>

(* ------------------------------ two runs ------------------------------- *)

\* variant: main () seeds rand () from the clock (srand (time (0)))
Restart_Seeded ==
  /\ runNo = 1
  /\ pc = "done" \/ Len(out) = MaxOut
  /\ out1' = out
  /\ runNo' = 2
  /\ pc' = Entry(prog)
  /\ k' = 0
  /\ arr' = IF prog \in {"iter", "sort"} THEN input ELSE <<>>
  /\ v' = <<>>
  /\ s' = <<>>
  /\ q' = <<>>
  /\ p1' = 0
  /\ p2' = 0
  /\ out' = <<>>
  /\ ret' = -1
  /\ rstate' \in 0..(RandMod - 1)
  /\ rlog' = <<>>
  /\ oob' = FALSE
  /\ pre' = <<>>
  /\ UNCHANGED <<prog, input, rimpl>>

\* the same program is started a second time, once the first run has
\* returned or has filled the log: main () is entered again with its
\* globals initialised afresh, rand () unseeded
Restart ==
  /\ runNo = 1
  /\ pc = "done" \/ Len(out) = MaxOut
  /\ out1' = out
  /\ runNo' = 2
  /\ pc' = Entry(prog)
  /\ k' = 0
  /\ arr' = IF prog \in {"iter", "sort"} THEN input ELSE <<>>
  /\ v' = <<>>
  /\ s' = <<>>
  /\ q' = <<>>
  /\ p1' = 0
  /\ p2' = 0
  /\ out' = <<>>
  /\ ret' = -1
  /\ rstate' = DefaultSeed
  /\ rlog' = <<>>
  /\ oob' = FALSE
  /\ pre' = <<>>
  /\ UNCHANGED <<prog, input, rimpl>>

Next ==
  \/ VecPushBack
  \/ VecPrintSize
  \/ VecReturn
  \/ IterArrayInit
  \/ IterArrayTest
  \/ IterArrayBody
  \/ IterPushBack
  \/ IterVecInit
  \/ IterVecTest
  \/ IterVecBody
  \/ IterReturn
  \/ SortArray
  \/ SortArrayInit
  \/ SortArrayTest
  \/ SortArrayBody
  \/ SortPushBack
  \/ SortVector
  \/ SortVecInit
  \/ SortVecTest
  \/ SortVecBody
  \/ SortReturn
  \/ SetInsert
  \/ SetIterInit
  \/ SetIterTest
  \/ SetIterBody
  \/ SetReturn
  \/ PqPush
  \/ PqTest
  \/ PqBody
  \/ PqReturn
  \/ GenConstruct
  \/ GenGenerate
  \/ GenerateNStep
  \/ GenerateNReturn
  \/ GenLoopInit
  \/ GenLoopTest
  \/ GenLoopBody
  \/ GenEndl
  \/ GenReturn
  \/ Restart

Spec == Init /\ [][Next]_vars

\* a started program is single-threaded and keeps executing its next
\* statement
FairSpec == Spec /\ WF_vars(Next)

(* ------------------------------ claims --------------------------------- *)

\* the items `cout << pre << a[i] << endl' prints for a front-to-back pass
Lines(label, a) == [i \in 1..Len(a) |-> Item(label, <<a[i]>>, "\n")]

\* C4: in the simple vector example size () equals the number of push_back
\* calls made so far, after every prefix of the calls, and the program
\* prints that number: 2 for push_back (42), push_back (1).
C4_SizeCountsPushBacks ==
  /\ prog \in {"vec", "iter", "sort"} => size(v) = k
  /\ prog = "vec" =>
    /\ pc \in {"vec_ret", "done"} =>
         out = <<Item("v.size () = ", <<Len(input)>>, "\n")>>
    /\ (input = VecLiterals /\ pc \in {"vec_ret", "done"}) =>
         out = <<Item("v.size () = ", <<2>>, "\n")>>

C4_Witness ==
  /\ prog = "vec" /\ input = VecLiterals /\ pc = "done"
  /\ v = <<42, 1>>
  /\ out = <<Item("v.size () = ", <<2>>, "\n")>>

\* the output the article lists for the iterator example
IterExpected ==
  Lines("array has ", ArrayLiterals) \o Lines("vector has ", ArrayLiterals)

\* C5: the iterator example prints the three array lines, then the three
\* vector lines in insertion order, each element once, and returns 0.
C5_IterPrintsEachOnce ==
  (prog = "iter" /\ input = ArrayLiterals) =>
    /\ IsPrefix(out, IterExpected)
    /\ pc = "done" => (out = IterExpected /\ ret = 0)

\* the literals of the listing of example pr
Literals(pr) ==
  CASE pr = "vec"  -> VecLiterals
    [] pr = "iter" -> ArrayLiterals
    [] pr = "sort" -> ArrayLiterals
    [] pr = "set"  -> SetLiterals
    [] pr = "pq"   -> PqLiterals
    [] pr = "gen"  -> <<>>

\* C6: every example, run as listed, leaves its loops after finitely many
\* iterations and reaches return 0.
C6_EveryExampleTerminates ==
  (input = Literals(prog)) => <>(pc = "done" /\ ret = 0)

\* C2: the sort example leaves the array and the vector in non-decreasing
\* order, both the same sequence, and prints the array and then the vector
\* front to back: 1, 3, 42 twice for the literals 1, 42, 3.
C2_SortExample ==
  prog = "sort" =>
    /\ pc # "sort_array" => NonDecreasing(arr)
    /\ pc \in {"sort_vinit", "sort_vtest", "sort_vbody", "sort_ret", "done"} =>
         (NonDecreasing(v) /\ v = arr)
    /\ pc \in {"sort_ret", "done"} =>
         out = Lines("array has ", arr) \o Lines("vector has ", v)
    /\ (input = ArrayLiterals /\ pc \in {"sort_ret", "done"}) =>
         out = Lines("array has ", <<1, 3, 42>>)
                 \o Lines("vector has ", <<1, 3, 42>>)

C2_Witness ==
  /\ prog = "sort" /\ input = ArrayLiterals /\ pc = "done"
  /\ arr = <<1, 3, 42>> /\ v = <<1, 3, 42>>
  /\ Len(out) = 6

\* C10: sort () only rearranges: the sorted array and the sorted vector hold
\* the multiset of values the range held before the call (same length, 3 for
\* the literals), and sorting the sorted sequence again changes nothing.
C10_SortRearranges ==
  prog = "sort" =>
    /\ pc \in {"sort_ainit", "sort_atest", "sort_abody", "sort_push"} =>
         /\ SameMultiset(arr, pre)
         /\ Len(arr) = Len(input)
         /\ sort(arr, begin(arr), end(arr)) = arr
    /\ pc \in {"sort_vinit", "sort_vtest", "sort_vbody", "sort_ret", "done"} =>
         /\ SameMultiset(v, pre)
         /\ Len(v) = Len(input)
         /\ sort(v, begin(v), end(v)) = v
    /\ (input = ArrayLiterals /\ pc = "done") => (Len(arr) = 3 /\ Len(v) = 3)

C10_Witness ==
  /\ prog = "sort" /\ pc = "done" /\ Len(input) = 3
  /\ pre # v /\ SameMultiset(v, pre)
  /\ \E i \in 1..2 : v[i] = v[i + 1]

\* C3: the set example prints every distinct inserted value once, in
\* strictly ascending order, whatever the order of the insertions: 1, 3, 42
\* for insert (1), insert (42), insert (3).
C3_SetIteratesAscending ==
  prog = "set" =>
    /\ StrictlyAscending(s)
    /\ Range(s) = {input[i] : i \in 1..k}
    /\ IsPrefix(out, Lines("", s))
    /\ pc \in {"set_ret", "done"} =>
         /\ out = Lines("", s)
         /\ StrictlyAscending(Values(out))
         /\ Range(Values(out)) = Range(input)
    /\ (input = SetLiterals /\ pc \in {"set_ret", "done"}) =>
         Values(out) = <<1, 3, 42>>

C3_Witness ==
  /\ prog = "set" /\ pc = "done"
  /\ input = <<42, 3, 42>>
  /\ Values(out) = <<3, 42>>

\* C1: the priority-queue example prints the pushed values in
\* non-increasing order, each as often as it was pushed: 101, 69, 42 for
\* push (42), push (101), push (69).
C1_PqPrintsDescending ==
  prog = "pq" =>
    /\ NonIncreasing(Values(out))
    /\ pc \in {"pq_ret", "done"} => SameMultiset(Values(out), input)
    /\ (input = PqLiterals /\ pc \in {"pq_ret", "done"}) =>
         out = Lines("", <<101, 69, 42>>)

C1_Witness ==
  /\ prog = "pq" /\ input = PqLiterals /\ pc = "done"
  /\ Values(out) = <<101, 69, 42>>

\* C9: in the priority-queue example top () and pop () run only on a
\* non-empty queue, every iteration removes exactly one element and prints
\* the maximum of the elements then in the queue, and at the exit of the
\* loop the queue is empty and as many values were printed as were pushed.
C9_PqLoopSafety ==
  /\ [](prog = "pq" =>
          /\ pc = "pq_body" => ~empty(q)
          /\ ~oob
          /\ pc \in {"pq_ret", "done"} =>
               (empty(q) /\ Len(out) = Len(input))
          /\ (input = PqLiterals /\ pc \in {"pq_ret", "done"}) => Len(out) = 3)
  /\ [][(prog = "pq" /\ pc = "pq_body") =>
          /\ Len(q') = Len(q) - 1
          /\ out' = Append(out, Item("", <<SeqMax(q)>>, "\n"))]_vars

C9_Witness ==
  /\ prog = "pq" /\ input = PqLiterals /\ pc = "pq_test"
  /\ Len(q) = 1 /\ Len(out) = 2

\* C8: generate_n calls the generator exactly 10 times, stores the k-th
\* returned value in v1[k-1], stores nothing outside v1, leaves size () at
\* 10, and the loop prints those 10 values in index order.
C8_GenerateNFillsVector ==
  prog = "gen" =>
    /\ ~oob
    /\ pc # "gen_construct" => size(v) = 10
    /\ pc = "gen_n_loop" =>
         /\ Len(rlog) = 10 - k
         /\ \A i \in 1..Len(rlog) : v[i] = rlog[i]
    /\ pc \notin {"gen_construct", "gen_generate", "gen_n_loop"} =>
         /\ Len(rlog) = 10
         /\ \A i \in 1..10 : v[i] = rlog[i]
    /\ pc \in {"gen_test", "gen_body"} =>
         out = [i \in 1..p1 |-> Item("", <<rlog[i]>>, " ")]
    /\ pc \in {"gen_endl", "gen_ret", "done"} =>
         SubSeq(out, 1, 10) = [i \in 1..10 |-> Item("", <<rlog[i]>>, " ")]
    /\ pc \in {"gen_ret", "done"} => Len(out) = 11

C8_Witness ==
  /\ prog = "gen" /\ pc = "done" /\ rimpl = <<5, 3>>
  /\ Len(rlog) = 10 /\ v = rlog
  /\ v[1] = 8 /\ v[2] = 11
  /\ Len(out) = 11

\* C7: two runs of the same example print the same sequence: the second
\* run never prints anything the first did not print at that place, and
\* once it has returned (or has filled the log) it has printed all of it.
C7_TwoRunsPrintTheSame ==
  runNo = 2 =>
    /\ IsPrefix(out, out1)
    /\ (pc = "done" \/ Len(out) = MaxOut) => out = out1

C7_Witness ==
  /\ runNo = 2 /\ prog = "gen" /\ pc = "done"
  /\ Len(out) = 11 /\ out = out1

====
